---- MODULE Spec2Model ----
(***************************************************************************)
(* Model of src/server.js: the POST /fetch handler of the ad-free proxy.   *)
(* One request is followed from validation to its response.  Strings are   *)
(* sequences of one-character strings; a document is a function from node  *)
(* numbers to element records (node 1 is <html>, node 2 is <body>, the     *)
(* parent of a node has a smaller number).                                 *)
(***************************************************************************)
EXTENDS Integers, Sequences, FiniteSets, TLC

\* Number of elements below <body> in a fetched document.
MaxNodes == 2

----------------------------------------------------------------------------
(* Strings *)

UpperCase == <<"A","B","C","D","E","F","G","H","I","J","K","L","M",
               "N","O","P","Q","R","S","T","U","V","W","X","Y","Z">>
LowerCase == <<"a","b","c","d","e","f","g","h","i","j","k","l","m",
               "n","o","p","q","r","s","t","u","v","w","x","y","z">>

IsUpper(c) == \E i \in 1..26 : UpperCase[i] = c
IsLetter(c) == \E i \in 1..26 : UpperCase[i] = c \/ LowerCase[i] = c
ToLowerChar(c) == IF IsUpper(c) THEN LowerCase[CHOOSE i \in 1..26 : UpperCase[i] = c] ELSE c
ToLower(s) == [i \in 1..Len(s) |-> ToLowerChar(s[i])]

\* lit occurs in s starting at position i
MatchAt(lit, s, i) == /\ i + Len(lit) - 1 <= Len(s)
                      /\ \A k \in 1..Len(lit) : s[i + k - 1] = lit[k]

\* A value that is no string: an absent attribute, undefined, null.
Null == <<"<null>">>

\* JavaScript truthiness of a string-or-null value
Truthy(v) == v # Null /\ v # <<>>

----------------------------------------------------------------------------
(* Request validation: !target || !/^https?:\/\//i.test(target) *)

\* the pattern without its ^ anchor
TestHttpPrefixUnanchored(t) ==
    LET l == ToLower(t) IN
    \E i \in 1..Len(l) :
        /\ MatchAt(<<"h","t","t","p">>, l, i)
        /\ \/ MatchAt(<<":","/","/">>, l, i + 4)
           \/ MatchAt(<<"s",":","/","/">>, l, i + 4)

TestHttpPrefix(t) ==
    LET l == ToLower(t) IN
    /\ MatchAt(<<"h","t","t","p">>, l, 1)
    /\ \/ MatchAt(<<":","/","/">>, l, 5)
       \/ MatchAt(<<"s",":","/","/">>, l, 5)

InvalidTarget(t) == ~Truthy(t) \/ ~TestHttpPrefix(t)

Targets ==
    { Null,
      <<>>,
      <<"n","o","t","-","a","-","u","r","l">>,
      <<"f","t","p",":","/","/","e">>,
      <<"h","t","t","p",":","/","e">>,
      <<"x","h","t","t","p",":","/","/","e">>,
      <<"h","t","t","p",":","/","/","e","/","d","/","f">>,
      <<"H","t","t","p","S",":","/","/","E","?","a","&","b">> }

----------------------------------------------------------------------------
(* URLs: new url.URL(resourceUrl, base).toString() *)

\* index of the first character of u at or after from that is in chars,
\* Len(u) + 1 when there is none
FirstIn(u, from, chars) ==
    IF \E j \in from..Len(u) : u[j] \in chars
    THEN CHOOSE j \in from..Len(u) :
            u[j] \in chars /\ \A k \in from..(j - 1) : u[k] \notin chars
    ELSE Len(u) + 1

\* u starts with a scheme: letters followed by a colon
HasScheme(u) ==
    \E i \in 2..Len(u) : u[i] = ":" /\ \A k \in 1..(i - 1) : IsLetter(u[k])

SchemeEnd(u) == FirstIn(u, 1, {":"})
HostStart(u) == SchemeEnd(u) + 3
HostEnd(u) == FirstIn(u, HostStart(u), {"/", "?", "#"})
PathEnd(u) == FirstIn(u, HostEnd(u), {"?", "#"})
UrlHost(u) == SubSeq(u, HostStart(u), HostEnd(u) - 1)
UrlOrigin(u) == ToLower(SubSeq(u, 1, HostEnd(u) - 1))
UrlPath(u) == IF PathEnd(u) = HostEnd(u) THEN <<"/">>
              ELSE SubSeq(u, HostEnd(u), PathEnd(u) - 1)
UrlRest(u) == SubSeq(u, PathEnd(u), Len(u))

ForbiddenHostChars == {"[", "]", " ", "<", ">", "^", "|", "%"}

\* the parser accepts the absolute URL u
ParsesAbsolute(u) ==
    /\ HasScheme(u)
    /\ MatchAt(<<":", "/", "/">>, u, SchemeEnd(u))
    /\ UrlHost(u) # <<>>
    /\ \A k \in 1..Len(UrlHost(u)) : UrlHost(u)[k] \notin ForbiddenHostChars

Serialize(u) == UrlOrigin(u) \o UrlPath(u) \o UrlRest(u)

\* the directory of a path: everything up to and including its last slash
DirOf(path) == SubSeq(path, 1, CHOOSE j \in 1..Len(path) :
                   path[j] = "/" /\ \A k \in (j + 1)..Len(path) : path[k] # "/")

\* new URL(u, base).toString(); Null stands for the TypeError it throws
URLToString(u, base) ==
    IF HasScheme(u)
    THEN IF ParsesAbsolute(u) THEN Serialize(u) ELSE Null
    ELSE IF ~ParsesAbsolute(base) THEN Null
    ELSE IF u = <<>> THEN Serialize(base)
    ELSE IF u[1] = "/" THEN UrlOrigin(base) \o u
    ELSE IF u[1] = "?" THEN UrlOrigin(base) \o UrlPath(base) \o u
    ELSE UrlOrigin(base) \o DirOf(UrlPath(base)) \o u

\* try { return new url.URL(...).toString() } catch (e) { return resourceUrl }
toAbsolute(resourceUrl, base) ==
    IF URLToString(resourceUrl, base) = Null THEN resourceUrl
    ELSE URLToString(resourceUrl, base)

----------------------------------------------------------------------------
(* Text conversions used by the page wrapper *)

EscapeChar(c) ==
    IF c = "&" THEN <<"&","a","m","p",";">>
    ELSE IF c = "<" THEN <<"&","l","t",";">>
    ELSE IF c = ">" THEN <<"&","g","t",";">>
    ELSE IF c = "\"" THEN <<"&","q","u","o","t",";">>
    ELSE <<c>>

RECURSIVE EscapeText(_)
\* sanitizeHtml applied to a string without markup: its text, escaped
EscapeText(s) == IF s = <<>> THEN <<>> ELSE EscapeChar(Head(s)) \o EscapeText(Tail(s))

EncodeChar(c) ==
    IF c = " " THEN <<"%","2","0">>
    ELSE IF c = "\"" THEN <<"%","2","2">>
    ELSE IF c = "<" THEN <<"%","3","C">>
    ELSE IF c = ">" THEN <<"%","3","E">>
    ELSE <<c>>

RECURSIVE encodeURI(_)
encodeURI(s) == IF s = <<>> THEN <<>> ELSE EncodeChar(Head(s)) \o encodeURI(Tail(s))

----------------------------------------------------------------------------
(* Documents *)

Elem(tag, id, cls, ref, rel, as) ==
    [tag |-> tag, parent |-> 0, id |-> id, cls |-> cls, ref |-> ref,
     rel |-> rel, as |-> as, target |-> ""]

\* elements a fetched page may hold below <body>
Samples ==
    { Elem("p", <<>>, <<>>, Null, "", ""),
      Elem("div", <<>>, <<>>, Null, "", ""),
      Elem("div", <<>>, <<"T","o","p","-","B","A","N","N","E","R">>, Null, "", ""),
      Elem("script", <<>>, <<>>, Null, "", ""),
      Elem("iframe", <<>>, <<>>, Null, "", ""),
      Elem("ins", <<>>, <<>>, Null, "", ""),
      Elem("amp-ad", <<>>, <<>>, Null, "", ""),
      Elem("amp-analytics", <<>>, <<>>, Null, "", ""),
      Elem("link", <<>>, <<>>, Null, "preload", "script"),
      Elem("a", <<>>, <<>>, <<"/","p">>, "", ""),
      Elem("a", <<>>, <<>>, <<>>, "", ""),
      Elem("a", <<"n","a","v">>, <<>>, <<"h","t","t","p",":","/","/","[">>, "", ""),
      Elem("img", <<>>, <<>>, <<"i",".","p","n","g">>, "", "") }

\* the <html> and <body> elements of a fetched page
Roots ==
    { <<Elem("html", <<>>, <<>>, Null, "", ""), Elem("body", <<>>, <<>>, Null, "", "")>>,
      <<Elem("html", <<"x","-","S","p","o","n","s","o","r","e","d">>, <<>>, Null, "", ""),
        Elem("body", <<>>, <<>>, Null, "", "")>>,
      <<Elem("html", <<>>, <<>>, Null, "", ""),
        Elem("body", <<>>, <<"p","r","o","m","o","t","e","d"," ","a","d","s">>, Null, "", "")>> }

\* tags whose elements hold other elements in the sampled pages
Containers == {"body", "div"}

\* parent assignments for nodes 3..n+2 with samples s: an earlier container
ParentChoices(n, s) ==
    { p \in [3..(n + 2) -> 2..(n + 1)] :
        \A i \in 3..(n + 2) : p[i] < i /\ (p[i] = 2 \/ s[p[i]].tag \in Containers) }

DocumentsOfSize(n) ==
    UNION { UNION { { [i \in 1..(n + 2) |->
                        IF i = 1 THEN r[1]
                        ELSE IF i = 2 THEN [r[2] EXCEPT !.parent = 1]
                        ELSE [s[i] EXCEPT !.parent = p[i]]] :
                      p \in ParentChoices(n, s) } :
                    s \in [3..(n + 2) -> Samples] } :
            r \in Roots }

Documents == UNION { DocumentsOfSize(n) : n \in 0..MaxNodes }

----------------------------------------------------------------------------
(* DOM operations *)

RECURSIVE InSubtree(_, _, _)
\* node n of d is in R or below a node of R
InSubtree(d, n, R) ==
    \/ n \in R
    \/ d[n].parent \in DOMAIN d /\ InSubtree(d, d[n].parent, R)

\* n.remove() for every n in R: R and everything below it leaves the document
Remove(d, R) == [n \in {m \in DOMAIN d : ~InSubtree(d, m, R)} |-> d[n]]

\* document.body: the <body> child of the <html> root, null when detached
HasBody(d) == 1 \in DOMAIN d /\ 2 \in DOMAIN d

\* body.innerHTML: the elements below <body>
InnerHTML(d) == [n \in {m \in DOMAIN d : m > 2} |-> d[n]]

\* the selectors swept unconditionally; "" leaves an attribute unconstrained
Selectors ==
    << [tag |-> "script", rel |-> "", as |-> ""],
       [tag |-> "iframe", rel |-> "", as |-> ""],
       [tag |-> "ins", rel |-> "", as |-> ""],
       [tag |-> "amp-ad", rel |-> "", as |-> ""],
       [tag |-> "amp-analytics", rel |-> "", as |-> ""],
       [tag |-> "link", rel |-> "preload", as |-> "script"] >>

MatchesSelector(el, sel) ==
    /\ el.tag = sel.tag
    /\ sel.rel # "" => el.rel = sel.rel
    /\ sel.as # "" => el.as = sel.as

querySelectorAll(d, sel) == {n \in DOMAIN d : MatchesSelector(d[n], sel)}

RECURSIVE SweepSelectors(_, _)
\* [...].forEach(sel => doc.querySelectorAll(sel).forEach(n => n.remove()))
SweepSelectors(d, sels) ==
    IF sels = <<>> THEN d
    ELSE SweepSelectors(Remove(d, querySelectorAll(d, Head(sels))), Tail(sels))

StructuralStrip(d) == SweepSelectors(d, Selectors)

\* /advert/i, /ads?/i, /banner/i, /sponsored/i, /promoted/i: the literal part of
\* each pattern and its optional tail
adPatterns ==
    << [lit |-> <<"a","d","v","e","r","t">>, opt |-> <<>>],
       [lit |-> <<"a","d">>, opt |-> <<"s">>],
       [lit |-> <<"b","a","n","n","e","r">>, opt |-> <<>>],
       [lit |-> <<"s","p","o","n","s","o","r","e","d">>, opt |-> <<>>],
       [lit |-> <<"p","r","o","m","o","t","e","d">>, opt |-> <<>>] >>

\* p.test(s): an unanchored, case-insensitive search; the optional tail may
\* match nothing, so the literal part decides
RegexTest(p, s) == \E i \in 1..Len(s) : MatchAt(p.lit, ToLower(s), i)

LooksLikeAd(el) ==
    \E k \in 1..Len(adPatterns) :
        RegexTest(adPatterns[k], el.id) \/ RegexTest(adPatterns[k], el.cls)

\* doc.querySelectorAll('*').forEach(el => ... el.remove() ...)
HeuristicStrip(d) == Remove(d, {n \in DOMAIN d : LooksLikeAd(d[n])})

\* the fallback's rewriting of anchors and images
RewriteElement(el, base) ==
    IF el.tag = "a"
    THEN [el EXCEPT !.ref = IF Truthy(el.ref) THEN toAbsolute(el.ref, base) ELSE el.ref,
                    !.rel = "noopener noreferrer",
                    !.target = "_blank"]
    ELSE IF el.tag = "img"
    THEN [el EXCEPT !.ref = IF Truthy(el.ref) THEN toAbsolute(el.ref, base) ELSE el.ref]
    ELSE el

RewriteLinks(d, base) == [n \in DOMAIN d |-> RewriteElement(d[n], base)]

----------------------------------------------------------------------------
(* Sanitizer configuration *)

\* sanitizeHtml.defaults.allowedTags
DefaultAllowedTags ==
    { "address", "article", "aside", "footer", "header", "h1", "h2", "h3", "h4",
      "h5", "h6", "hgroup", "main", "nav", "section", "blockquote", "dd", "div",
      "dl", "dt", "figcaption", "figure", "hr", "li", "ol", "p", "pre", "ul",
      "a", "abbr", "b", "bdi", "bdo", "br", "cite", "code", "data", "dfn", "em",
      "i", "kbd", "mark", "q", "rb", "rp", "rt", "rtc", "ruby", "s", "samp",
      "small", "span", "strong", "sub", "sup", "time", "u", "var", "wbr",
      "caption", "col", "colgroup", "table", "tbody", "td", "tfoot", "th",
      "thead", "tr" }

\* an allow-list that lets frames through
allowedTagsWithIframe == DefaultAllowedTags \cup {"img", "h1", "h2", "h3", "iframe"}

allowedTags ==
    DefaultAllowedTags \cup
        {"img", "h1", "h2", "h3", "table", "thead", "tbody", "tr", "th", "td"}

\* tags whose content is dropped with them
NonTextTags == {"script", "style", "textarea", "option"}

\* allowedAttributes: href, target, rel on anchors; src on images; class and id
\* on every tag
SanitizeElement(el) ==
    [el EXCEPT !.ref = IF el.tag \in {"a", "img"} THEN el.ref ELSE Null,
               !.rel = IF el.tag = "a" THEN el.rel ELSE "",
               !.target = IF el.tag = "a" THEN el.target ELSE "",
               !.as = ""]

SanitizeElements(els) ==
    [n \in {m \in DOMAIN els :
              /\ els[m].tag \in allowedTags
              /\ ~InSubtree(els, m, {k \in DOMAIN els : els[k].tag \in NonTextTags})}
       |-> SanitizeElement(els[n])]

\* contentHtml and clean: an optional leading <h1> and the elements after it
NoContent == [h1 |-> Null, els |-> <<>>]

sanitizeHtml(content) == [h1 |-> content.h1, els |-> SanitizeElements(content.els)]

----------------------------------------------------------------------------
(* The request handler *)

VARIABLES
    pc,           \* the handler's position
    target,       \* req.body.target
    fetches,      \* outbound requests made so far
    resp,         \* the upstream response's status, 0 before there is one
    html,         \* the fetched page
    doc,          \* the parsed document: its attached elements
    article,      \* the reader's result
    contentHtml,
    clean,
    wrapper,
    sent,         \* the responses written to res, in order
    thrownAt,     \* the position at which an exception reached the outer catch
    extractThrew, \* the reader threw and the inner catch swallowed it
    fallbackRan   \* the fallback block was executed

vars == <<pc, target, fetches, resp, html, doc, article, contentHtml, clean,
          wrapper, sent, thrownAt, extractThrew, fallbackRan>>

\* upstream statuses the fetch may resolve with
Statuses == {199, 200, 299, 300, 404, 500}

\* redirects taken for successes
OkBelow400(status) == status >= 200 /\ status < 400

\* resp.ok
Ok(status) == status >= 200 /\ status <= 299

NoArticle == [title |-> Null, content |-> Null]
NoWrapper == [title |-> Null, shown |-> Null, href |-> Null, main |-> NoContent]

ErrorResponse(status, error) == [status |-> status, error |-> error, page |-> NoWrapper]
PageResponse(page) == [status |-> 200, error |-> "", page |-> page]

\* the subtree of d rooted at r, as an HTML fragment
Fragment(d, r) == [n \in {m \in DOMAIN d : InSubtree(d, m, {r})} |-> d[n]]

\* what reader.parse() may return for document d: null, or an article whose
\* content is missing, empty, or a part of the document's body
Articles(d) ==
    {NoArticle}
    \cup { [title |-> <<"T">>, content |-> c] : c \in {Null, <<>>} }
    \cup { [title |-> t, content |-> Fragment(d, r)] :
             t \in {Null, <<"T">>}, r \in {m \in DOMAIN d : m > 2 /\ HasBody(d)} }

\* article && article.content
Usable(a) == a # NoArticle /\ Truthy(a.content)

Init ==
    /\ pc = "Validate"
    /\ target \in Targets
    /\ fetches = 0
    /\ resp = 0
    /\ html = <<>>
    /\ doc = <<>>
    /\ article = NoArticle
    /\ contentHtml = NoContent
    /\ clean = NoContent
    /\ wrapper = NoWrapper
    /\ sent = <<>>
    /\ thrownAt = ""
    /\ extractThrew = FALSE
    /\ fallbackRan = FALSE

\* a catch that reports the upstream-failure error
CatchAs502 ==
    /\ sent' = Append(sent, ErrorResponse(502, "Failed to fetch target"))
    /\ thrownAt' = pc
    /\ pc' = "Responded"

\* a catch that only logs
CatchLogOnly ==
    /\ sent' = sent
    /\ thrownAt' = pc
    /\ pc' = "Responded"

\* catch (err) { res.status(500).json({ error: 'Server error' }) }
Catch ==
    /\ sent' = Append(sent, ErrorResponse(500, "Server error"))
    /\ thrownAt' = pc
    /\ pc' = "Responded"

\* the 400 branch without its return
ValidateNoReturn ==
    /\ pc = "Validate"
    /\ sent' = IF InvalidTarget(target)
               THEN Append(sent, ErrorResponse(400, "Invalid URL")) ELSE sent
    /\ pc' = "Fetch"
    /\ UNCHANGED <<target, fetches, resp, html, doc, article, contentHtml, clean,
                   wrapper, thrownAt, extractThrew, fallbackRan>>

Validate ==
    /\ pc = "Validate"
    /\ IF InvalidTarget(target)
       THEN /\ sent' = Append(sent, ErrorResponse(400, "Invalid URL"))
            /\ pc' = "Responded"
       ELSE /\ pc' = "Fetch"
            /\ sent' = sent
    /\ UNCHANGED <<target, fetches, resp, html, doc, article, contentHtml, clean,
                   wrapper, thrownAt, extractThrew, fallbackRan>>

\* await fetch(target, ...): rejects, or resolves with a status
Fetch ==
    /\ pc = "Fetch"
    /\ fetches' = fetches + 1
    /\ \/ /\ Catch
          /\ resp' = resp
       \/ \E status \in Statuses :
            /\ resp' = status
            /\ thrownAt' = thrownAt
            /\ IF ~Ok(status)
               THEN /\ sent' = Append(sent, ErrorResponse(502, "Failed to fetch target"))
                    /\ pc' = "Responded"
               ELSE /\ pc' = "FetchBody"
                    /\ sent' = sent
    /\ UNCHANGED <<target, html, doc, article, contentHtml, clean, wrapper,
                   extractThrew, fallbackRan>>

\* await resp.text()
FetchBody ==
    /\ pc = "FetchBody"
    /\ \/ /\ Catch
          /\ html' = html
       \/ /\ html' \in Documents
          /\ pc' = "Parse"
          /\ UNCHANGED <<sent, thrownAt>>
    /\ UNCHANGED <<target, fetches, resp, doc, article, contentHtml, clean, wrapper,
                   extractThrew, fallbackRan>>

\* new JSDOM(html, { url: target })
Parse ==
    /\ pc = "Parse"
    /\ \/ /\ Catch
          /\ doc' = doc
       \/ /\ doc' = html
          /\ pc' = "StructuralStrip"
          /\ UNCHANGED <<sent, thrownAt>>
    /\ UNCHANGED <<target, fetches, resp, html, article, contentHtml, clean, wrapper,
                   extractThrew, fallbackRan>>

StructuralStripStep ==
    /\ pc = "StructuralStrip"
    /\ \/ /\ Catch
          /\ doc' = doc
       \/ /\ doc' = StructuralStrip(doc)
          /\ pc' = "HeuristicStrip"
          /\ UNCHANGED <<sent, thrownAt>>
    /\ UNCHANGED <<target, fetches, resp, html, article, contentHtml, clean, wrapper,
                   extractThrew, fallbackRan>>

HeuristicStripStep ==
    /\ pc = "HeuristicStrip"
    /\ \/ /\ Catch
          /\ doc' = doc
       \/ /\ doc' = HeuristicStrip(doc)
          /\ pc' = "Extract"
          /\ UNCHANGED <<sent, thrownAt>>
    /\ UNCHANGED <<target, fetches, resp, html, article, contentHtml, clean, wrapper,
                   extractThrew, fallbackRan>>

\* where the handler goes after the reader's try block
AfterExtract(a) == IF Usable(a) THEN "ExtractOK" ELSE "Fallback"

\* the reader called outside a try block of its own
ExtractNoTry ==
    /\ pc = "Extract"
    /\ \/ /\ extractThrew' = TRUE
          /\ article' = article
          /\ Catch
       \/ /\ extractThrew' = FALSE
          /\ article' \in Articles(doc)
          /\ pc' = AfterExtract(article')
          /\ UNCHANGED <<sent, thrownAt>>
    /\ UNCHANGED <<target, fetches, resp, html, doc, contentHtml, clean, wrapper,
                   fallbackRan>>

\* try { new Readability(doc).parse() } catch (e) { }
Extract ==
    /\ pc = "Extract"
    /\ \/ /\ extractThrew' = TRUE
          /\ article' = article
       \/ /\ extractThrew' = FALSE
          /\ article' \in Articles(doc)
    /\ pc' = AfterExtract(article')
    /\ UNCHANGED <<target, fetches, resp, html, doc, contentHtml, clean, wrapper,
                   sent, thrownAt, fallbackRan>>

\* the heading left empty
ArticleHtmlNoTitle(a) == [h1 |-> <<>>, els |-> a.content]

\* `<h1>${article.title || ''}</h1>\n${article.content}`
ArticleHtml(a) == [h1 |-> IF Truthy(a.title) THEN a.title ELSE <<>>, els |-> a.content]

ExtractOK ==
    /\ pc = "ExtractOK"
    /\ contentHtml' = ArticleHtml(article)
    /\ pc' = "Sanitize"
    /\ UNCHANGED <<target, fetches, resp, html, doc, article, clean, wrapper, sent,
                   thrownAt, extractThrew, fallbackRan>>

\* doc.body ? doc.body.innerHTML : html
FallbackHtml(d, raw) == [h1 |-> Null, els |-> IF HasBody(d) THEN InnerHTML(d) ELSE raw]

Fallback ==
    /\ pc = "Fallback"
    /\ fallbackRan' = TRUE
    /\ \/ /\ Catch
          /\ UNCHANGED <<doc, contentHtml>>
       \/ /\ doc' = RewriteLinks(doc, target)
          /\ contentHtml' = FallbackHtml(doc', html)
          /\ pc' = "Sanitize"
          /\ UNCHANGED <<sent, thrownAt>>
    /\ UNCHANGED <<target, fetches, resp, html, article, clean, wrapper, extractThrew>>

Sanitize ==
    /\ pc = "Sanitize"
    /\ \/ /\ Catch
          /\ clean' = clean
       \/ /\ clean' = sanitizeHtml(contentHtml)
          /\ pc' = "Render"
          /\ UNCHANGED <<sent, thrownAt>>
    /\ UNCHANGED <<target, fetches, resp, html, doc, article, contentHtml, wrapper,
                   extractThrew, fallbackRan>>

\* the page template around the sanitized content
Wrapper(t, c) ==
    [title |-> EscapeText(t), shown |-> EscapeText(t), href |-> encodeURI(t), main |-> c]

Render ==
    /\ pc = "Render"
    /\ \/ /\ Catch
          /\ wrapper' = wrapper
       \/ /\ wrapper' = Wrapper(target, clean)
          /\ pc' = "Respond"
          /\ UNCHANGED <<sent, thrownAt>>
    /\ UNCHANGED <<target, fetches, resp, html, doc, article, contentHtml, clean,
                   extractThrew, fallbackRan>>

\* res.set('Content-Type', ...); res.send(wrapper)
Respond ==
    /\ pc = "Respond"
    /\ sent' = Append(sent, PageResponse(wrapper))
    /\ pc' = "Responded"
    /\ UNCHANGED <<target, fetches, resp, html, doc, article, contentHtml, clean,
                   wrapper, thrownAt, extractThrew, fallbackRan>>

Next ==
    \/ Validate
    \/ Fetch
    \/ FetchBody
    \/ Parse
    \/ StructuralStripStep
    \/ HeuristicStripStep
    \/ Extract
    \/ ExtractOK
    \/ Fallback
    \/ Sanitize
    \/ Render
    \/ Respond

Spec == Init /\ [][Next]_vars

\* The handler's code runs to completion and the fetch is bounded by its timeout.
LiveSpec == Spec /\ WF_vars(Next)

----------------------------------------------------------------------------
(* Properties *)

Responded == pc = "Responded"
Sent200 == \E i \in 1..Len(sent) : sent[i].status = 200

\* the elements embedded in the body of a 200 response
ServedElements(i) == sent[i].page.main.els

\* a target that is present and starts with http:// or https://, in any case
StartsWithHttp(t) ==
    /\ t # Null
    /\ \/ Len(t) >= 7 /\ ToLower(SubSeq(t, 1, 7)) = <<"h","t","t","p",":","/","/">>
       \/ Len(t) >= 8 /\ ToLower(SubSeq(t, 1, 8)) = <<"h","t","t","p","s",":","/","/">>

\* C1: a request whose target is missing or does not start with http:// or
\* https:// (case-insensitively) is answered 400 "Invalid URL", and no outbound
\* fetch is made at any point of it.
C1_InvalidTargetRejected ==
    ~StartsWithHttp(target) =>
        /\ fetches = 0
        /\ pc \in {"Validate", "Responded"}
        /\ Responded => sent = <<ErrorResponse(400, "Invalid URL")>>

C1_Witness ==
    /\ Responded
    /\ target = <<"x","h","t","t","p",":","/","/","e">>
    /\ sent = <<ErrorResponse(400, "Invalid URL")>>

\* C2: when the upstream response has a status outside 200..299 the request is
\* answered 502 "Failed to fetch target" and no later stage (reading the body,
\* parse, strip, extract, fallback, sanitize, render) is entered.
C2_NonOkStatusIs502 ==
    (resp # 0 /\ (resp < 200 \/ resp > 299)) =>
        /\ Responded
        /\ sent = <<ErrorResponse(502, "Failed to fetch target")>>
        /\ html = <<>> /\ doc = <<>>
        /\ article = NoArticle /\ ~extractThrew /\ ~fallbackRan
        /\ contentHtml = NoContent /\ clean = NoContent /\ wrapper = NoWrapper

C2_Witness == Responded /\ resp = 300 /\ sent[1].status = 502

\* C3 as claimed: when the fetch raises (network error, timeout) the request is
\* answered 502, like a non-success upstream status.
C3_FetchErrorIs502 ==
    (Responded /\ thrownAt = "Fetch") => sent[1].status = 502

\* C3 as amended: when the fetch raises, the request is answered
\* 500 "Server error"; 502 is sent only for a response with a non-success status.
C3_FetchErrorIs500 ==
    /\ (Responded /\ thrownAt = "Fetch") =>
          /\ sent = <<ErrorResponse(500, "Server error")>>
          /\ resp = 0 /\ fetches = 1
    /\ (Responded /\ sent[1].status = 502) => (resp # 0 /\ ~(resp \in 200..299))

C3_Witness == Responded /\ thrownAt = "Fetch" /\ fetches = 1 /\ Len(sent) = 1

BannedTags == {"script", "iframe", "ins", "amp-ad", "amp-analytics"}

\* C4: on every path to a 200 response (article, body fallback, raw-HTML
\* fallback) the content embedded in the response holds no script, iframe, ins,
\* amp-ad or amp-analytics element.
C4_NoBannedTagsServed ==
    /\ \A n \in DOMAIN clean.els : clean.els[n].tag \notin BannedTags
    /\ \A i \in 1..Len(sent) :
          \A n \in DOMAIN ServedElements(i) : ServedElements(i)[n].tag \notin BannedTags

\* a 200 response built from the raw page, which held banned elements
C4_Witness ==
    /\ Sent200
    /\ fallbackRan /\ ~HasBody(doc)
    /\ \E n \in DOMAIN html : html[n].tag \in BannedTags
    /\ \E n \in DOMAIN html : n > 2 /\ n \in DOMAIN ServedElements(1)

\* the elements of the fetched page whose id or class looks like an ad
AdNodes(d) == {n \in DOMAIN d : LooksLikeAd(d[n])}

\* C5 as claimed: an element of the fetched page whose id or class contains
\* "ad", "ads", "advert", "banner", "sponsored" or "promoted", and every
\* descendant of it, is absent from the body of every 200 response.
C5_AdElementsAbsent ==
    \A i \in 1..Len(sent) :
        \A n \in DOMAIN ServedElements(i) : ~InSubtree(html, n, AdNodes(html))

\* C6: exactly one content source is used.  With a non-empty extracted content
\* the sanitizer's input is an <h1> with the title (empty if none) followed by
\* that content and the fallback block is not executed; the fallback block is
\* executed if and only if the extraction gave no usable content.
ExtractionGaveContent == article # NoArticle /\ article.content \notin {Null, <<>>}

C6_OneContentSource ==
    /\ fallbackRan => ~ExtractionGaveContent
    /\ pc \in {"Sanitize", "Render", "Respond"} \/ Sent200 =>
          IF ExtractionGaveContent
          THEN /\ ~fallbackRan
               /\ contentHtml.h1 = (IF article.title = Null THEN <<>> ELSE article.title)
               /\ contentHtml.els = article.content
               /\ doc = HeuristicStrip(StructuralStrip(html))
          ELSE /\ fallbackRan
               /\ contentHtml.h1 = Null

C6_Witness ==
    /\ Sent200
    /\ ExtractionGaveContent
    /\ article.title = <<"T">>
    /\ sent[1].page.main.h1 = <<"T">>
    /\ \E n \in DOMAIN doc : n > 2 /\ n \notin DOMAIN article.content

Resolvable(u, base) == URLToString(u, base) # Null

\* C7 as claimed: when the extraction yields nothing, every anchor and image of
\* the fallback content handed to the sanitizer has a scheme-qualified
\* href/src if its original value was resolvable against the target, and its
\* original value otherwise, for both forms of the fallback content.
C7_FallbackLinksAbsolute ==
    (fallbackRan /\ pc \in {"Sanitize", "Render", "Respond"}) =>
        \A n \in DOMAIN contentHtml.els :
            (contentHtml.els[n].tag \in {"a", "img"} /\ html[n].ref # Null) =>
                IF Resolvable(html[n].ref, target)
                THEN HasScheme(contentHtml.els[n].ref)
                ELSE contentHtml.els[n].ref = html[n].ref

\* position of a stage in Validate, Fetch, Parse, StructuralStrip,
\* HeuristicStrip, Extract, (ExtractOK | Fallback), Sanitize, Render, Respond
StageRank(p) ==
    CASE p = "Validate" -> 0
      [] p \in {"Fetch", "FetchBody"} -> 1
      [] p = "Parse" -> 2
      [] p = "StructuralStrip" -> 3
      [] p = "HeuristicStrip" -> 4
      [] p = "Extract" -> 5
      [] p \in {"ExtractOK", "Fallback"} -> 6
      [] p = "Sanitize" -> 7
      [] p = "Render" -> 8
      [] p = "Respond" -> 9
      [] p = "Responded" -> 10

\* C8: a request moves through the stages in order only, never back, makes at
\* most one upstream fetch, and eventually rests in one terminal state in
\* which exactly one response has been sent.
C8_LinearSingleResponse ==
    /\ [][\/ pc' = "Responded"
          \/ StageRank(pc') = StageRank(pc) + 1
          \/ pc = "Fetch" /\ pc' = "FetchBody"]_vars
    /\ [][pc # "Responded" /\ (fetches' # fetches => pc = "Fetch")]_vars
    /\ [](fetches <= 1)
    /\ [](Len(sent) <= 1 /\ (Responded <=> Len(sent) = 1))
    /\ <>[](Responded /\ Len(sent) = 1 /\ sent[1].status \in {200, 400, 500, 502})

C8_Witness == Responded /\ Len(sent) = 1 /\ sent[1].status = 200 /\ fetches = 1

ThrowingStages == {"Fetch", "FetchBody", "Parse", "StructuralStrip", "HeuristicStrip",
                   "Fallback", "Sanitize", "Render"}

\* C9: an exception raised while fetching, parsing, stripping, rewriting in the
\* fallback, sanitizing or rendering makes 500 "Server error" the request's
\* only response; no page and no 200 status is sent for it.
C9_ExceptionIs500Only ==
    thrownAt # "" =>
        /\ thrownAt \in ThrowingStages
        /\ Responded
        /\ sent = <<ErrorResponse(500, "Server error")>>

C9_Witness == thrownAt = "Render" /\ Responded /\ clean # NoContent /\ ~Sent200

\* C10: a failure inside the extraction is no request failure: it counts as
\* "no result", the fallback runs on the same document, and the request goes
\* on to Sanitize and Render as when the extraction returned nothing.
C10_ExtractFailureFallsBack ==
    /\ [][(pc = "Extract" /\ extractThrew') =>
            /\ pc' = "Fallback"
            /\ UNCHANGED <<doc, sent, thrownAt, contentHtml>>
            /\ ~Usable(article')]_vars
    /\ [](extractThrew => thrownAt \in {"", "Fallback", "Sanitize", "Render"})
    /\ []((extractThrew /\ pc \in {"Sanitize", "Render", "Respond"}) =>
            /\ fallbackRan
            /\ contentHtml = FallbackHtml(doc, html)
            /\ doc = RewriteLinks(HeuristicStrip(StructuralStrip(html)), target))

C10_Witness == extractThrew /\ Sent200 /\ HasBody(doc) /\ DOMAIN ServedElements(1) # {}

====
